---------------------------- MODULE Spec2Model ----------------------------
(***************************************************************************)
(* Model of the MIKROE 4-20 mA R Click driver (MIKROE_4_20mA_RT_Click.h    *)
(* and .cpp): the receiver's SPI read, the two-point calibration mapping,  *)
(* the fault threshold and the oversampling exponential moving average.    *)
(*                                                                         *)
(* Numbers.  A C++ 'float' is modelled as a binary floating-point number   *)
(* with a significand of Precision bits: a record [nan, m, e] that stands  *)
(* for m * 2^e, every operation rounded to the nearest such number, plus   *)
(* the not-a-number value NAN.  The 32-bit microsecond counter is modelled *)
(* as a counter modulo ClockMod.                                           *)
(***************************************************************************)
EXTENDS Integers, Sequences, FiniteSets

VARIABLES
    now,                     \* value returned by the latest micros() call
    calib_,                  \* R_Click::calib_
    SPI_clock_,              \* R_Click::SPI_clock_
    EMA_interval_,           \* R_Click::EMA_interval_
    EMA_LP_freq_,            \* R_Click::EMA_LP_freq_ [MHz]
    EMA_bitval_,             \* R_Click::EMA_bitval_
    EMA_at_startup_,         \* R_Click::EMA_at_startup_
    EMA_tick_,               \* R_Click::EMA_tick_
    EMA_obtained_interval_,  \* R_Click::EMA_obtained_interval_
    alpha,                   \* local 'alpha' of the latest sampling poll_EMA()
    miso,                    \* the bytes the last operation received over SPI
    op,                      \* the operation that ran last
    ret,                     \* what it returned
    spi,                     \* the SPI bus and pin events it issued, in order
    nsamples,                \* number of samples poll_EMA() has absorbed
    true_since_tick,         \* microseconds that really passed since EMA_tick_
                             \* was read; ClockMod stands for 'ClockMod or more'
    true_elapsed,            \* the same at the entry of the latest poll_EMA()
    T_calib_,                \* T_Click::calib_
    T_SPI_clock_,            \* T_Click::SPI_clock_
    T_bitval_,               \* T_Click::bitval_
    T_last_mA,               \* <<argument>> of the latest set_mA() call
    CS_level,                \* level last written to each chip-select pin
    mosi,                    \* the bytes the last operation sent over SPI
    absorbed,                \* the raw samples poll_EMA() has absorbed
    loop_now,                \* local 'now' of the latest loop(): millis()
    statics_set,             \* the static locals of loop() are initialised
    tick,                    \* static 'tick' of loop()
    flash,                   \* static 'flash' of loop()
    flash_tick,              \* static 'flash_tick' of loop()
    report,                  \* static 'report' of loop()
    neo,                     \* what the NeoPixel shows
    str_cmd,                 \* the command the latest loop() received
    readings,                \* the global 'readings'
    serial,                  \* the lines the latest operation printed
    last_report              \* <<timestamp>> of the latest report line

vars == <<now, calib_, SPI_clock_, EMA_interval_, EMA_LP_freq_, EMA_bitval_,
          EMA_at_startup_, EMA_tick_, EMA_obtained_interval_, alpha, miso, op,
          ret, spi, nsamples, true_since_tick, true_elapsed, T_calib_,
          T_SPI_clock_, T_bitval_, T_last_mA, CS_level, mosi, absorbed,
          loop_now, statics_set, tick, flash, flash_tick, report, neo,
          str_cmd, readings, serial, last_report>>

(***************************************************************************)
(* Bounds of the model.                                                    *)
(***************************************************************************)
\* Bits of a float's significand (24 in the program).
Precision == 13
\* The microsecond counter counts modulo ClockMod (2^32 in the program).
ClockMod == 6
\* poll_EMA() absorbs at most MaxSamples samples in a run of the model.
MaxSamples == 2

Clock == 0 .. (ClockMod - 1)

(***************************************************************************)
(* Float arithmetic: round to nearest, ties to even, after every           *)
(* operation.  A number is m * 2^e with m = 0 or                           *)
(* 2^(Precision-1) <= |m| < 2^Precision, so equal numbers are equal        *)
(* records.  The exponent is unbounded: overflow to infinity and           *)
(* underflow are not modelled.  exp() is rounded to a float as well, also  *)
(* where the platform computes it in double before alpha is stored.        *)
(***************************************************************************)
NAN == [nan |-> TRUE, m |-> 0, e |-> 0]

Zero == [nan |-> FALSE, m |-> 0, e |-> 0]

Abs(n) == IF n < 0 THEN -n ELSE n

Sign(n) == IF n < 0 THEN -1 ELSE IF n > 0 THEN 1 ELSE 0

\* Number of bits of n >= 0.
RECURSIVE BitLen(_)
BitLen(n) == IF n = 0 THEN 0 ELSE 1 + BitLen(n \div 2)

\* n / 2^k for n >= 0, k >= 1, rounded to nearest, ties to even.
RoundShift(n, k) ==
    LET q == n \div (2 ^ k)
        r == n % (2 ^ k)
        half == 2 ^ (k - 1)
    IN  IF r > half \/ (r = half /\ q % 2 = 1) THEN q + 1 ELSE q

\* The float nearest to the integer m times 2^e.
Norm(m, e) ==
    IF m = 0 THEN Zero
    ELSE LET a == Abs(m)
             len == BitLen(a)
         IN  IF len <= Precision
             THEN [nan |-> FALSE,
                   m |-> Sign(m) * a * (2 ^ (Precision - len)),
                   e |-> e - (Precision - len)]
             ELSE LET k == len - Precision
                      q == RoundShift(a, k)
                  IN  IF q = 2 ^ Precision
                      THEN [nan |-> FALSE,
                            m |-> Sign(m) * (2 ^ (Precision - 1)),
                            e |-> e + k + 1]
                      ELSE [nan |-> FALSE, m |-> Sign(m) * q, e |-> e + k]

\* An integer converted to float.
FInt(n) == Norm(n, 0)

FNeg(a) == IF a.nan THEN NAN ELSE [a EXCEPT !.m = -a.m]

FAbs(a) == IF a.nan THEN NAN ELSE [a EXCEPT !.m = Abs(a.m)]

\* The sum of hi and lo, the exponent of hi being the larger one: a lo below
\* a quarter of hi's last place does not change hi.
AddAligned(hi, lo) ==
    IF hi.e - lo.e >= Precision + 2 THEN hi
    ELSE Norm(hi.m * (2 ^ (hi.e - lo.e)) + lo.m, lo.e)

FAdd(a, b) ==
    IF a.nan \/ b.nan THEN NAN
    ELSE IF a.m = 0 THEN b
    ELSE IF b.m = 0 THEN a
    ELSE IF a.e >= b.e THEN AddAligned(a, b)
    ELSE AddAligned(b, a)

FSub(a, b) == FAdd(a, FNeg(b))

FMul(a, b) == IF a.nan \/ b.nan THEN NAN ELSE Norm(a.m * b.m, a.e + b.e)

\* The quotient to Precision + 2 bits and a sticky bit for the remainder,
\* then rounded.  Division by zero gives an infinity or a NaN in the
\* program; the model folds both to NAN.
FDiv(a, b) ==
    IF a.nan \/ b.nan \/ b.m = 0 THEN NAN
    ELSE LET num == Abs(a.m) * (2 ^ (Precision + 2))
             q == num \div Abs(b.m)
             sticky == IF num % Abs(b.m) = 0 THEN 0 ELSE 1
         IN  Norm(Sign(a.m) * Sign(b.m) * (2 * q + sticky),
                  a.e - b.e - Precision - 3)

\* A decimal constant num/den as the nearest float.
FDec(num, den) == FDiv(FInt(num), FInt(den))

\* Comparisons: false as soon as one side is not a number.
FGt(a, b) == ~a.nan /\ ~b.nan /\ FSub(a, b).m > 0

FLe(a, b) == ~a.nan /\ ~b.nan /\ FSub(a, b).m <= 0

\* |a| in steps of 2^-20, for |a| < 64.
Fixed20(a) ==
    IF a.e + 20 >= 0 THEN Abs(a.m) * (2 ^ (a.e + 20))
    ELSE IF -(a.e + 20) > Precision THEN 0
    ELSE RoundShift(Abs(a.m), -(a.e + 20))

\* Sum of the series 1 + r + r^2/2! + ... for 0 <= r < ln 2, r and the sum
\* in steps of 2^-15; 'term' is the n-th term.
RECURSIVE ExpSeries(_, _, _, _)
ExpSeries(r, n, term, acc) ==
    IF term = 0 THEN acc
    ELSE ExpSeries(r, n + 1,
                   (term * r + (n + 1) * 16384) \div ((n + 1) * 32768),
                   acc + term)

\* exp(a) = 2^n * exp(r) with a = n * ln 2 + r and 0 <= r < ln 2
\* (ln 2 = 726817 * 2^-20).  exp(a) for a <= -64 is below every float the
\* model subtracts it from and is returned as 0; the program passes no
\* a >= 64.
FExp(a) ==
    IF a.nan \/ (a.m > 0 /\ a.e + Precision > 6) THEN NAN
    ELSE IF a.m < 0 /\ a.e + Precision > 6 THEN Zero
    ELSE LET y == Sign(a.m) * Fixed20(a)
             n == y \div 726817
             r == RoundShift(y % 726817, 5)
         IN  Norm(ExpSeries(r, 0, 32768, 0), n - 15)

(***************************************************************************)
(* Program constants and the inputs the model draws from.                  *)
(***************************************************************************)
DEFAULT_RT_CLICK_SPI_CLOCK == 1000000

\* const float R_CLICK_FAULT_mA = 3.8
R_CLICK_FAULT_mA == FDec(38, 10)

\* RT_Click_Calibration values handed to the constructor.
Calibrations ==
    { [p1_mA |-> FInt(4), p2_mA |-> FInt(20),
       p1_bitval |-> 800, p2_bitval |-> 4000],
      [p1_mA |-> FDec(411, 100), p2_mA |-> FDec(2002, 100),
       p1_bitval |-> 830, p2_bitval |-> 4002] }

\* Values of micros() at construction: just after a wrap of the counter and
\* just before one.
StartTimes == {0, ClockMod - 1}

\* Calibrations of the sketch with two devices: the above, one whose upper
\* point the float interpolation misses by a rounding step, and one whose
\* lower point lies below the fault threshold.
RTCalibrations ==
    Calibrations \cup
    { [p1_mA |-> FDec(392, 100), p2_mA |-> FDec(1994, 100),
       p1_bitval |-> 800, p2_bitval |-> 4000],
      [p1_mA |-> FDec(35, 10), p2_mA |-> FInt(20),
       p1_bitval |-> 700, p2_bitval |-> 4000] }

\* EMA_interval values handed to the constructor [us].
Intervals == {0, 2}

\* EMA_LP_freq values handed to the constructor [Hz].
Cutoffs == {200000, 5000000}

\* clk_freq_Hz values handed to set_SPI_clock().
SPIClocks == {500000}

\* Byte pairs <<first, second>> the MCP3201 answers with: the readings 0, 760
\* (with the three undefined leading bits and the trailing bit set) and 4000.
Responses == { <<0, 0>>, <<229, 241>>, <<31, 64>> }

\* mA values handed to set_mA(): inside the calibrated span, beyond its
\* upper end, below zero output, and no number.
Currents == { FInt(12), FInt(25), FNeg(FInt(1)), NAN }

\* Bytes the MCP3201 answers with in the sketch with two devices; pairs of
\* them carry all patterns of the undefined leading and trailing bits.
Bytes == {0, 31, 64, 229, 241, 255}

\* Its answers to read_mA(): the readings 0, 700, 800, 2400 and 4000.
SpanResponses ==
    { <<0, 0>>, <<5, 120>>, <<6, 64>>, <<18, 192>>, <<31, 64>> }

\* The answers while poll_EMA() samples: the readings 0 and 4000.
SampleResponses == { <<0, 0>>, <<31, 64>> }

(***************************************************************************)
(* The SPI bus and pin events of the operations, in program order.         *)
(***************************************************************************)
\* Mutant of ReadExchange: the chip selected before the transaction opens.
ReadExchangeEarlySelect ==
    << "CS_LOW", "beginTransaction", "transfer", "transfer", "CS_HIGH",
       "endTransaction" >>

\* read_bitval(): one exchange of two byte transfers.
ReadExchange ==
    << "beginTransaction", "CS_LOW", "transfer", "transfer", "CS_HIGH",
       "endTransaction" >>

\* Mutant of WriteExchange: the chip left selected.
WriteExchangeLeftSelected ==
    << "beginTransaction", "CS_LOW", "transfer", "transfer",
       "endTransaction" >>

\* set_mA(): one exchange of two byte transfers.
WriteExchange ==
    << "beginTransaction", "CS_LOW", "transfer", "transfer", "CS_HIGH",
       "endTransaction" >>

\* begin(): no byte is transferred.
BeginEvents == << "SPI.begin", "CS_HIGH", "pinMode_OUTPUT" >>

\* The devices, named by the object that owns the chip-select pin.
Devices == {"R_click", "T_click"}

\* A pin no digitalWrite() has reached yet; a sketch without a T_Click.
Unset == "unset"

NoDevice == "none"

\* The level of a chip-select pin after the digitalWrite() calls among
\* 'events', given its level before.
PinLevel(level, events) ==
    LET writes == { i \in 1 .. Len(events) :
                        events[i] \in {"CS_LOW", "CS_HIGH"} }
    IN  IF writes = {} THEN level
        ELSE LET last == CHOOSE i \in writes : \A j \in writes : j <= i
             IN  IF events[last] = "CS_HIGH" THEN "HIGH" ELSE "LOW"

\* The levels of all chip-select pins after 'device' issued 'events'.
PinsAfter(levels, device, events) ==
    [levels EXCEPT ![device] = PinLevel(levels[device], events)]

\* The byte read_bitval() sends with each transfer: SPI.transfer(0xFF).
ReadFiller == 255

(***************************************************************************)
(* Pure functions of the driver.                                           *)
(***************************************************************************)
\* EMA_LP_freq * 1e-6f: the cut-off frequency in MHz.
Hz2MHz(EMA_LP_freq) == FMul(FInt(EMA_LP_freq), FDec(1, 1000000))

\* Mutant of ConvertedCurrent: the two spans divided the wrong way round.
ConvertedCurrentSwapped(calib, bitval) ==
    FAdd(calib.p1_mA,
         FMul(FDiv(FSub(bitval, FInt(calib.p1_bitval)),
                   FSub(calib.p2_mA, calib.p1_mA)),
              FInt(calib.p2_bitval - calib.p1_bitval)))

\* The local 'mA' of R_Click::bitval2mA: the linear interpolation through
\* the two calibration points of 'calib'.
ConvertedCurrent(calib, bitval) ==
    FAdd(calib.p1_mA,
         FMul(FDiv(FSub(bitval, FInt(calib.p1_bitval)),
                   FInt(calib.p2_bitval - calib.p1_bitval)),
              FSub(calib.p2_mA, calib.p1_mA)))

\* Mutant of bitval2mA: the fault check left out.
bitval2mA_unchecked(calib, bitval) == ConvertedCurrent(calib, bitval)

\* Mutant of bitval2mA: '>=' for '>'.
bitval2mA_ge(calib, bitval) ==
    LET mA == ConvertedCurrent(calib, bitval)
    IN  IF FGt(mA, R_CLICK_FAULT_mA) \/ mA = R_CLICK_FAULT_mA THEN mA ELSE NAN

\* R_Click::bitval2mA with the calibration 'calib'.
bitval2mA(calib, bitval) ==
    LET mA == ConvertedCurrent(calib, bitval)
    IN  IF FGt(mA, R_CLICK_FAULT_mA) THEN mA ELSE NAN

\* Mutant of ReconstructBitval: the high byte not masked with 0x1F.
ReconstructUnmasked(byte1, byte2) ==
    ((byte1 * 256 + byte2) % 65536) \div 2

\* The value read_bitval() reconstructs from the two bytes received.
ReconstructBitval(byte1, byte2) ==
    LET data_HI == byte1 % 32
        data_LO == byte2
    IN  (((data_HI * 256) + data_LO) % 65536) \div 2

\* Mutant of SmoothingFactor: the decay factor itself, not its complement.
SmoothingFactorDecay(obtained_interval, LP_freq) ==
    FExp(FMul(FNeg(FInt(obtained_interval)), LP_freq))

\* Mutant of SmoothingFactor: computed from the configured interval, as a
\* value cached at construction would be.
SmoothingFactorStale(obtained_interval, LP_freq) ==
    FSub(FInt(1), FExp(FMul(FNeg(FInt(EMA_interval_)), LP_freq)))

\* alpha = 1.f - exp(-float(EMA_obtained_interval_) * EMA_LP_freq_)
SmoothingFactor(obtained_interval, LP_freq) ==
    FSub(FInt(1), FExp(FMul(FNeg(FInt(obtained_interval)), LP_freq)))

\* Mutant of Blend: the correction applied twice.
BlendDoubled(bitval, a, sample) ==
    FAdd(bitval, FMul(FMul(FInt(2), a), FSub(FInt(sample), bitval)))

\* Mutant of Blend: the correction subtracted.
BlendAway(bitval, a, sample) ==
    FSub(bitval, FMul(a, FSub(FInt(sample), bitval)))

\* EMA_bitval_ += alpha * (read_bitval() - EMA_bitval_)
Blend(bitval, a, sample) ==
    FAdd(bitval, FMul(a, FSub(FInt(sample), bitval)))

\* Mutant of Elapsed: the difference clamped at 0 when the clock has wrapped.
ElapsedClamped(t_now, t_tick) == IF t_now >= t_tick THEN t_now - t_tick ELSE 0

\* Mutant of Elapsed: the difference taken in signed or wider arithmetic.
ElapsedSigned(t_now, t_tick) == t_now - t_tick

\* round(): the nearest integer, halves away from zero.
Round(a) ==
    IF a.e >= 0 THEN a.m * (2 ^ a.e)
    ELSE IF -a.e > Precision + 1 THEN 0
    ELSE Sign(a.m) * ((Abs(a.m) + 2 ^ (-a.e - 1)) \div (2 ^ (-a.e)))

\* (uint16_t) of a rounded value: the value itself when it fits; otherwise
\* the conversion is undefined (or, where round() is the Arduino macro, a
\* conversion of a long): the value modulo 2^16 or a saturated value.
ToUint16(v) ==
    IF v \in 0 .. 65535 THEN {v}
    ELSE {v % 65536, IF v < 0 THEN 0 ELSE 65535}

\* Mutant of ConvertedBitval: the offset p1_bitval left out.
ConvertedBitvalNoOffset(calib, mA) ==
    FMul(FDiv(FSub(mA, calib.p1_mA), FSub(calib.p2_mA, calib.p1_mA)),
         FInt(calib.p2_bitval - calib.p1_bitval))

\* The argument of round() in T_Click::mA2bitval.
ConvertedBitval(calib, mA) ==
    FAdd(FMul(FDiv(FSub(mA, calib.p1_mA), FSub(calib.p2_mA, calib.p1_mA)),
              FInt(calib.p2_bitval - calib.p1_bitval)),
         FInt(calib.p1_bitval))

\* T_Click::mA2bitval with the calibration 'calib': the values a call can
\* return.
mA2bitval(calib, mA) ==
    LET x == ConvertedBitval(calib, mA)
    IN  IF x.nan THEN {0, 65535} ELSE ToUint16(Round(x))

\* Mutant of BitvalHI: the configuration bits not set.
BitvalHIPlain(bitval) == (bitval \div 256) % 16

\* bitval_HI = (bitval_ >> 8) & 0x0F; bitval_HI |= 0x30
BitvalHI(bitval) == ((bitval \div 256) % 16) + 48

\* bitval_LO = bitval_ (a byte)
BitvalLO(bitval) == bitval % 256

\* now - EMA_tick_ in unsigned arithmetic of the counter's width.
Elapsed(t_now, t_tick) == (t_now - t_tick + ClockMod) % ClockMod

\* Mutants of DueToSample: the tick not subtracted; '>' for '>='; no gating.
DueToSampleNoTick(t_now, t_tick, interval) == t_now >= interval

DueToSampleStrict(t_now, t_tick, interval) ==
    Elapsed(t_now, t_tick) > interval

DueToSampleAlways(t_now, t_tick, interval) == TRUE

\* The test of poll_EMA(): (now - EMA_tick_) >= EMA_interval_
DueToSample(t_now, t_tick, interval) == Elapsed(t_now, t_tick) >= interval

\* Mutants of NextBitval: the average started at 0 and blended from the
\* first sample on; a sample in the fault range makes the average NaN.
NextBitvalZeroStart(at_startup, bitval, a, sample) ==
    Blend(IF at_startup THEN Zero ELSE bitval, a, sample)

NextBitvalFaultLatch(at_startup, bitval, a, sample) ==
    IF bitval2mA(calib_, FInt(sample)).nan THEN NAN
    ELSE IF at_startup THEN FInt(sample) ELSE Blend(bitval, a, sample)

\* The new EMA_bitval_ of a sampling poll_EMA(): the sample itself at
\* startup, the blend afterwards.
NextBitval(at_startup, bitval, a, sample) ==
    IF at_startup THEN FInt(sample) ELSE Blend(bitval, a, sample)

(***************************************************************************)
(* The sketch main.cpp: its globals and the static locals of loop().       *)
(***************************************************************************)
host == <<loop_now, statics_set, tick, flash, flash_tick, report, neo,
          str_cmd, readings, serial, last_report>>

\* No command received.
NoCommand == << >>

\* The sketch before setup(): 'readings' holds NaNs, the static locals of
\* loop() do not exist yet, nothing is shown or printed.
HostAtReset ==
    /\ loop_now = 0
    /\ statics_set = FALSE
    /\ tick = 0
    /\ flash = FALSE
    /\ flash_tick = 0
    /\ report = FALSE
    /\ neo = "off"
    /\ str_cmd = NoCommand
    /\ readings = [pres_bitval |-> NAN, pres_mA |-> NAN, pres_bar |-> NAN]
    /\ serial = << >>
    /\ last_report = << >>

\* Mutant of Init: the running value initialised to 0.
InitZero ==
    /\ now \in StartTimes
    /\ EMA_tick_ = now
    /\ calib_ \in Calibrations
    /\ SPI_clock_ = DEFAULT_RT_CLICK_SPI_CLOCK
    /\ EMA_interval_ \in Intervals
    /\ EMA_LP_freq_ \in { Hz2MHz(hz) : hz \in Cutoffs }
    /\ EMA_bitval_ = Zero
    /\ EMA_at_startup_ = TRUE
    /\ EMA_obtained_interval_ \in {0, ClockMod - 1}
    /\ alpha = NAN
    /\ miso = << >>
    /\ op = "R_Click"
    /\ ret = "void"
    /\ spi = << >>
    /\ nsamples = 0
    /\ true_since_tick = 0
    /\ true_elapsed = 0
    /\ T_calib_ = NoDevice
    /\ T_SPI_clock_ = NoDevice
    /\ T_bitval_ = NoDevice
    /\ T_last_mA = NoDevice
    /\ CS_level = [d \in Devices |-> Unset]
    /\ mosi = << >>
    /\ absorbed = {}
    /\ HostAtReset

(***************************************************************************)
(* Construction: R_Click(CS_pin, calib, EMA_interval, EMA_LP_freq) and the *)
(* default member initialisers.  EMA_obtained_interval_ has no initialiser *)
(* and starts with an indeterminate value.                                 *)
(***************************************************************************)
Init ==
    /\ now \in StartTimes
    /\ EMA_tick_ = now
    /\ calib_ \in Calibrations
    /\ SPI_clock_ = DEFAULT_RT_CLICK_SPI_CLOCK
    /\ EMA_interval_ \in Intervals
    /\ EMA_LP_freq_ \in { Hz2MHz(hz) : hz \in Cutoffs }
    /\ EMA_bitval_ = NAN
    /\ EMA_at_startup_ = TRUE
    /\ EMA_obtained_interval_ \in {0, ClockMod - 1}
    /\ alpha = NAN
    /\ miso = << >>
    /\ op = "R_Click"
    /\ ret = "void"
    /\ spi = << >>
    /\ nsamples = 0
    /\ true_since_tick = 0
    /\ true_elapsed = 0
    /\ T_calib_ = NoDevice
    /\ T_SPI_clock_ = NoDevice
    /\ T_bitval_ = NoDevice
    /\ T_last_mA = NoDevice
    /\ CS_level = [d \in Devices |-> Unset]
    /\ mosi = << >>
    /\ absorbed = {}
    /\ HostAtReset

(***************************************************************************)
(* Operations.                                                             *)
(***************************************************************************)
filter == <<EMA_bitval_, EMA_at_startup_, EMA_tick_, EMA_obtained_interval_>>

config == <<calib_, EMA_interval_, EMA_LP_freq_>>

T_click == <<T_calib_, T_SPI_clock_, T_bitval_, T_last_mA>>

\* void R_Click::set_SPI_clock(uint32_t clk_freq_Hz)
set_SPI_clock(clk_freq_Hz) ==
    /\ SPI_clock_' = clk_freq_Hz
    /\ op' = "set_SPI_clock"
    /\ ret' = "void"
    /\ spi' = << >>
    /\ miso' = << >>
    /\ mosi' = << >>
    /\ UNCHANGED <<now, config, filter, alpha, nsamples, true_since_tick,
                   true_elapsed,
                   T_click, CS_level, absorbed, host>>

\* Mutant of begin: the filter re-armed.
begin_restart ==
    /\ op' = "begin"
    /\ ret' = "void"
    /\ spi' = BeginEvents
    /\ miso' = << >>
    /\ mosi' = << >>
    /\ CS_level' = PinsAfter(CS_level, "R_click", spi')
    /\ EMA_at_startup_' = TRUE
    /\ UNCHANGED <<now, config, EMA_bitval_, EMA_tick_,
                   EMA_obtained_interval_, SPI_clock_, alpha, nsamples,
                   true_since_tick, true_elapsed, T_click, absorbed,
                   host>>

\* void R_Click::begin()
begin ==
    /\ op' = "begin"
    /\ ret' = "void"
    /\ spi' = BeginEvents
    /\ miso' = << >>
    /\ mosi' = << >>
    /\ CS_level' = PinsAfter(CS_level, "R_click", spi')
    /\ UNCHANGED <<now, config, filter, SPI_clock_, alpha, nsamples,
                   true_since_tick, true_elapsed, T_click, absorbed,
                   host>>

\* Mutant of read_bitval: the reading fed to the filter.
read_bitval_seeding(byte1, byte2) ==
    /\ op' = "read_bitval"
    /\ ret' = ReconstructBitval(byte1, byte2)
    /\ spi' = ReadExchange
    /\ miso' = <<byte1, byte2>>
    /\ mosi' = <<ReadFiller, ReadFiller>>
    /\ CS_level' = PinsAfter(CS_level, "R_click", spi')
    /\ EMA_at_startup_' = FALSE
    /\ EMA_bitval_' = FInt(ReconstructBitval(byte1, byte2))
    /\ UNCHANGED <<now, config, EMA_tick_, EMA_obtained_interval_,
                   SPI_clock_, alpha, nsamples, true_since_tick,
                   true_elapsed, T_click, absorbed, host>>

\* uint16_t R_Click::read_bitval(); the chip answers byte1, byte2.
read_bitval(byte1, byte2) ==
    /\ op' = "read_bitval"
    /\ ret' = ReconstructBitval(byte1, byte2)
    /\ spi' = ReadExchange
    /\ miso' = <<byte1, byte2>>
    /\ mosi' = <<ReadFiller, ReadFiller>>
    /\ CS_level' = PinsAfter(CS_level, "R_click", spi')
    /\ UNCHANGED <<now, config, filter, SPI_clock_, alpha, nsamples,
                   true_since_tick, true_elapsed, T_click, absorbed,
                   host>>

\* Mutant of read_mA: the exchange repeated.
read_mA_retry(byte1, byte2) ==
    /\ op' = "read_mA"
    /\ ret' = bitval2mA(calib_, FInt(ReconstructBitval(byte1, byte2)))
    /\ spi' = ReadExchange \o ReadExchange
    /\ miso' = <<byte1, byte2>>
    /\ mosi' = <<ReadFiller, ReadFiller>>
    /\ CS_level' = PinsAfter(CS_level, "R_click", spi')
    /\ UNCHANGED <<now, config, filter, SPI_clock_, alpha, nsamples,
                   true_since_tick, true_elapsed, T_click, absorbed,
                   host>>

\* float R_Click::read_mA()
read_mA(byte1, byte2) ==
    /\ op' = "read_mA"
    /\ ret' = bitval2mA(calib_, FInt(ReconstructBitval(byte1, byte2)))
    /\ spi' = ReadExchange
    /\ miso' = <<byte1, byte2>>
    /\ mosi' = <<ReadFiller, ReadFiller>>
    /\ CS_level' = PinsAfter(CS_level, "R_click", spi')
    /\ UNCHANGED <<now, config, filter, SPI_clock_, alpha, nsamples,
                   true_since_tick, true_elapsed, T_click, absorbed,
                   host>>

\* The body of R_Click::poll_EMA(): micros() has advanced by 'dt' since it
\* was last read, the chip answers byte1, byte2 if it is read, and the model
\* then counts 'counted' absorbed samples.
Polled(dt, byte1, byte2, counted) ==
    /\ now' = (now + dt) % ClockMod
    /\ true_elapsed' = IF true_since_tick + dt < ClockMod
                       THEN true_since_tick + dt ELSE ClockMod
    /\ IF DueToSample(now', EMA_tick_, EMA_interval_)
       THEN /\ nsamples' = counted
            /\ absorbed' = absorbed \cup {ReconstructBitval(byte1, byte2)}
            /\ EMA_obtained_interval_' = Elapsed(now', EMA_tick_)
            /\ alpha' = SmoothingFactor(EMA_obtained_interval_', EMA_LP_freq_)
            /\ EMA_at_startup_' = IF EMA_at_startup_ THEN FALSE ELSE EMA_at_startup_
            /\ EMA_bitval_' = NextBitval(EMA_at_startup_, EMA_bitval_, alpha',
                                         ReconstructBitval(byte1, byte2))
            /\ EMA_tick_' = now'
            /\ true_since_tick' = 0
            /\ spi' = ReadExchange
            /\ miso' = <<byte1, byte2>>
            /\ mosi' = <<ReadFiller, ReadFiller>>
            /\ ret' = TRUE
       ELSE /\ ret' = FALSE
            /\ true_since_tick' = true_elapsed'
            /\ spi' = << >>
            /\ miso' = << >>
            /\ mosi' = << >>
            /\ UNCHANGED <<filter, alpha, nsamples, absorbed>>
    /\ CS_level' = PinsAfter(CS_level, "R_click", spi')
    /\ UNCHANGED <<config, SPI_clock_, T_click>>

\* bool R_Click::poll_EMA(); a run of the model absorbs at most MaxSamples
\* samples.
poll_EMA(dt, byte1, byte2) ==
    /\ op' = "poll_EMA"
    /\ DueToSample((now + dt) % ClockMod, EMA_tick_, EMA_interval_)
       => nsamples < MaxSamples
    /\ Polled(dt, byte1, byte2, nsamples + 1)
    /\ UNCHANGED host

\* float R_Click::get_EMA_bitval(): what a call returns in the current state.
get_EMA_bitval == EMA_bitval_

\* float R_Click::get_EMA_mA()
get_EMA_mA == bitval2mA(calib_, EMA_bitval_)

\* uint32_t R_Click::get_EMA_obtained_interval()
get_EMA_obtained_interval == EMA_obtained_interval_

Next ==
    \/ \E clk \in SPIClocks : set_SPI_clock(clk)
    \/ begin
    \/ \E r \in Responses : read_bitval(r[1], r[2])
    \/ \E r \in Responses : read_mA(r[1], r[2])
    \/ \E dt \in Clock, r \in SampleResponses : poll_EMA(dt, r[1], r[2])

Spec == Init /\ [][Next]_vars

(***************************************************************************)
(* poll_EMA() called again and again, as loop() does, while micros()       *)
(* keeps advancing: every gap between two calls is shorter than 2^32 -     *)
(* EMA_interval_ microseconds, and gaps of at least one microsecond keep   *)
(* occurring.  The chip answers with the reading 4000.                     *)
(***************************************************************************)
\* The constructed object, as in Init.  Only poll_EMA() is called here, so
\* ret holds its return values: no call has returned true yet.
InitPoll ==
    /\ now \in StartTimes
    /\ EMA_tick_ = now
    /\ calib_ \in Calibrations
    /\ SPI_clock_ = DEFAULT_RT_CLICK_SPI_CLOCK
    /\ EMA_interval_ \in Intervals
    /\ EMA_LP_freq_ \in { Hz2MHz(hz) : hz \in Cutoffs }
    /\ EMA_bitval_ = NAN
    /\ EMA_at_startup_ = TRUE
    /\ EMA_obtained_interval_ \in {0, ClockMod - 1}
    /\ alpha = NAN
    /\ miso = << >>
    /\ op = "R_Click"
    /\ ret = FALSE
    /\ spi = << >>
    /\ nsamples = 0
    /\ true_since_tick = 0
    /\ true_elapsed = 0
    /\ T_calib_ = NoDevice
    /\ T_SPI_clock_ = NoDevice
    /\ T_bitval_ = NoDevice
    /\ T_last_mA = NoDevice
    /\ CS_level = [d \in Devices |-> Unset]
    /\ mosi = << >>
    /\ absorbed = {}
    /\ HostAtReset

\* The gaps between two calls [us].
Gaps == { dt \in Clock : dt < ClockMod - EMA_interval_ }

\* bool R_Click::poll_EMA(), the count of absorbed samples saturating.
poll_EMA_repeated(dt, byte1, byte2) ==
    /\ op' = "poll_EMA"
    /\ Polled(dt, byte1, byte2,
              IF nsamples < MaxSamples THEN nsamples + 1 ELSE nsamples)
    /\ UNCHANGED host

\* A call after micros() has advanced.
Advancing == \E dt \in Gaps \ {0} : poll_EMA_repeated(dt, 31, 64)

NextPoll == \E dt \in Gaps : poll_EMA_repeated(dt, 31, 64)

\* loop() runs for ever and micros() follows real time: calls after the
\* clock has advanced keep occurring.  Such a call is possible in every
\* state, so this is weak fairness of Advancing, stated without ENABLED.
SpecPoll == InitPoll /\ [][NextPoll]_vars /\ []<><<Advancing>>_vars

(***************************************************************************)
(* The sketch main.cpp: setup() once, then loop() again and again.  Time   *)
(* is scaled: millis() counts modulo MsMod, micros() modulo ClockMod, and  *)
(* the two advance independently between iterations.  The chip answers     *)
(* with the reading 4000.                                                  *)
(***************************************************************************)
\* millis() counts modulo MsMod (2^32 in the code).
MsMod == 4

Millis == 0 .. MsMod - 1

\* const uint32_t FLASH_LENGTH = 100, in model time.
FLASH_LENGTH == 2

\* const RT_Click_Calibration R_CLICK_CALIB{4.11, 20.02, 830, 4002}
R_CLICK_CALIB ==
    [p1_mA |-> FDec(411, 100), p2_mA |-> FDec(2002, 100),
     p1_bitval |-> 830, p2_bitval |-> 4002]

\* const uint32_t EMA_DT = 100 [us], in model time.
EMA_DT == 2

\* const float EMA_LP = 1000 [Hz], scaled with EMA_DT: the product
\* EMA_DT * EMA_LP stays 0.1.
EMA_LP == 50000

\* const Pressure_Calibration PRESSURE_CALIB{4.0, 16, 0.0689}
PRESSURE_CALIB ==
    [zero_mA |-> FInt(4), span_mA |-> FInt(16),
     full_range_bar |-> FDec(689, 10000)]

\* inline float mA2bar(float mA, const Pressure_Calibration calib)
mA2bar(mA, calib) ==
    FMul(FDiv(FSub(mA, calib.zero_mA), calib.span_mA), calib.full_range_bar)

\* The commands sc.getCommand() hands over: the three the sketch knows, and
\* "x" for any other line.
Commands == {"id?", "on", "off", "x"}

\* Mutant of ReportAfter: any command but "off" and "id?" turns reporting on.
ReportAfterEager(flag, command) ==
    IF command = "id?" THEN FALSE
    ELSE IF command = "off" THEN FALSE
    ELSE TRUE

\* The flag 'report' after the strcmp() chain of loop().
ReportAfter(flag, command) ==
    IF command = "id?" THEN FALSE
    ELSE IF command = "on" THEN TRUE
    ELSE IF command = "off" THEN FALSE
    ELSE flag

\* Mutant of ReportDue: the difference taken as a signed number.
ReportDueSigned(t_tick, t_now) == t_tick - t_now >= 1

\* (tick - now >= 1) on uint32_t.
ReportDue(t_tick, t_now) == (t_tick - t_now) % MsMod >= 1

\* (now - flash_tick >= FLASH_LENGTH) on uint32_t.
FlashOver(t_now, t_flash) == (t_now - t_flash) % MsMod >= FLASH_LENGTH

\* The line Serial.println("Arduino, Trachea pressure logger").
IdentityLine == [text |-> "Arduino, Trachea pressure logger", values |-> << >>]

\* The line Serial.print(now), '\t', Serial.println(pres_bar * 1000, 2):
\* the timestamp and the value handed to println().
ReportLine(t_now, pres_bar) ==
    [text |-> "report", values |-> <<t_now, FMul(pres_bar, FInt(1000))>>]

\* The global R_click(PIN_R_CLICK, R_CLICK_CALIB, EMA_DT, EMA_LP), built at
\* boot; a global is zero-initialised before its constructor runs.
InitLoop ==
    /\ now = 0
    /\ EMA_tick_ = now
    /\ calib_ = R_CLICK_CALIB
    /\ SPI_clock_ = DEFAULT_RT_CLICK_SPI_CLOCK
    /\ EMA_interval_ = EMA_DT
    /\ EMA_LP_freq_ = Hz2MHz(EMA_LP)
    /\ EMA_bitval_ = NAN
    /\ EMA_at_startup_ = TRUE
    /\ EMA_obtained_interval_ = 0
    /\ alpha = NAN
    /\ miso = << >>
    /\ op = "R_Click"
    /\ ret = "void"
    /\ spi = << >>
    /\ nsamples = 0
    /\ true_since_tick = 0
    /\ true_elapsed = 0
    /\ T_calib_ = NoDevice
    /\ T_SPI_clock_ = NoDevice
    /\ T_bitval_ = NoDevice
    /\ T_last_mA = NoDevice
    /\ CS_level = [d \in Devices |-> Unset]
    /\ mosi = << >>
    /\ absorbed = {}
    /\ HostAtReset

\* void setup(): the NeoPixel blue, Serial.begin(), R_click.begin(), the
\* NeoPixel dim green.
setup ==
    /\ neo = "off"
    /\ op' = "setup"
    /\ ret' = "void"
    /\ spi' = BeginEvents
    /\ miso' = << >>
    /\ mosi' = << >>
    /\ CS_level' = PinsAfter(CS_level, "R_click", spi')
    /\ neo' = "dim"
    /\ UNCHANGED <<now, config, filter, SPI_clock_, alpha, nsamples,
                   true_since_tick, true_elapsed, T_click, absorbed,
                   loop_now, statics_set, tick, flash, flash_tick, report,
                   str_cmd, readings, serial, last_report>>

\* void loop(): one iteration, dt_ms after the previous one by millis() and
\* dt_us by micros().  'available' is sc.available() and 'command' what
\* sc.getCommand() returns.  ret is what poll_EMA() returned; serial holds
\* the lines printed by this iteration.
loop(dt_us, dt_ms, available, command) ==
    /\ neo # "off"
    /\ op' = "loop"
    /\ loop_now' = (loop_now + dt_ms) % MsMod
    /\ statics_set' = TRUE
    /\ Polled(dt_us, 31, 64,
              IF nsamples < MaxSamples THEN nsamples + 1 ELSE nsamples)
    /\ LET tick0 == IF statics_set THEN tick ELSE loop_now'
           flash_tick0 == IF statics_set THEN flash_tick ELSE loop_now'
           flash1 == IF available THEN TRUE ELSE flash
           flash_tick1 == IF available THEN loop_now' ELSE flash_tick0
           report1 == IF available THEN ReportAfter(report, command)
                      ELSE report
           due == report1 /\ ReportDue(tick0, loop_now')
           over == flash1 /\ FlashOver(loop_now', flash_tick1)
           identity == IF available /\ command = "id?"
                       THEN <<IdentityLine>> ELSE << >>
       IN  /\ str_cmd' = IF available THEN <<command>> ELSE NoCommand
           /\ report' = report1
           /\ tick' = IF due THEN loop_now' ELSE tick0
           /\ IF due
              THEN \E mA \in {bitval2mA(calib_, EMA_bitval_')} :
                   \E bar \in {mA2bar(mA, PRESSURE_CALIB)} :
                      /\ readings' = [readings EXCEPT !.pres_mA = mA,
                                                      !.pres_bar = bar]
                      /\ serial' = identity \o <<ReportLine(loop_now', bar)>>
              ELSE /\ readings' = readings
                   /\ serial' = identity
           /\ last_report' = IF due THEN <<loop_now'>> ELSE last_report
           /\ flash' = IF over THEN FALSE ELSE flash1
           /\ flash_tick' = flash_tick1
           /\ neo' = IF over THEN "dim"
                     ELSE IF available THEN "bright" ELSE neo

\* Time between two iterations, by micros() and by millis().
LoopGapsMicros == {1, EMA_DT}

LoopGapsMillis == {0, 1, MsMod - 1}

NextLoop ==
    \/ setup
    \/ \E dt_us \in LoopGapsMicros, dt_ms \in LoopGapsMillis,
          command \in Commands :
          loop(dt_us, dt_ms, TRUE, command)
    \/ \E dt_us \in LoopGapsMicros, dt_ms \in LoopGapsMillis :
          loop(dt_us, dt_ms, FALSE, "x")

SpecLoop == InitLoop /\ [][NextLoop]_vars

(***************************************************************************)
(* A sketch with an R_Click and a T_Click on one SPI bus (RT_Click.ino).   *)
(* T_Click::bitval_ has no initialiser and starts with an indeterminate    *)
(* value.                                                                  *)
(***************************************************************************)
InitRT ==
    /\ now = ClockMod - 1
    /\ EMA_tick_ = now
    /\ calib_ \in RTCalibrations
    /\ SPI_clock_ = DEFAULT_RT_CLICK_SPI_CLOCK
    /\ EMA_interval_ = 2
    /\ EMA_LP_freq_ = Hz2MHz(200000)
    /\ EMA_bitval_ = NAN
    /\ EMA_at_startup_ = TRUE
    /\ EMA_obtained_interval_ \in {0, ClockMod - 1}
    /\ alpha = NAN
    /\ miso = << >>
    /\ op = "T_Click"
    /\ ret = "void"
    /\ spi = << >>
    /\ nsamples = 0
    /\ true_since_tick = 0
    /\ true_elapsed = 0
    /\ T_calib_ = calib_
    /\ T_SPI_clock_ = DEFAULT_RT_CLICK_SPI_CLOCK
    /\ T_bitval_ \in {0, 65535}
    /\ T_last_mA = << >>
    /\ CS_level = [d \in Devices |-> Unset]
    /\ mosi = << >>
    /\ absorbed = {}
    /\ HostAtReset

R_click == <<now, config, filter, SPI_clock_, alpha, nsamples,
             true_since_tick, true_elapsed, absorbed>>

\* void T_Click::set_SPI_clock(uint32_t clk_freq_Hz)
T_set_SPI_clock(clk_freq_Hz) ==
    /\ T_SPI_clock_' = clk_freq_Hz
    /\ op' = "T_set_SPI_clock"
    /\ ret' = "void"
    /\ spi' = << >>
    /\ miso' = << >>
    /\ mosi' = << >>
    /\ UNCHANGED <<R_click, T_calib_, T_bitval_, T_last_mA, CS_level, host>>

\* Mutant of Transmit: the value sent is not recorded.
TransmitUnrecorded(mA, bitval, before) ==
    /\ bitval \in mA2bitval(T_calib_, mA)
    /\ T_last_mA' = <<mA>>
    /\ spi' = before \o WriteExchange
    /\ mosi' = <<BitvalHI(bitval), BitvalLO(bitval)>>
    /\ miso' = << >>
    /\ CS_level' = PinsAfter(CS_level, "T_click", spi')
    /\ ret' = "void"
    /\ UNCHANGED <<R_click, T_calib_, T_SPI_clock_, T_bitval_, host>>

\* The body of T_Click::set_mA(mA), mA2bitval() returning 'bitval', after
\* the caller issued the events 'before'.
Transmit(mA, bitval, before) ==
    /\ bitval \in mA2bitval(T_calib_, mA)
    /\ T_bitval_' = bitval
    /\ T_last_mA' = <<mA>>
    /\ spi' = before \o WriteExchange
    /\ mosi' = <<BitvalHI(bitval), BitvalLO(bitval)>>
    /\ miso' = << >>
    /\ CS_level' = PinsAfter(CS_level, "T_click", spi')
    /\ ret' = "void"
    /\ UNCHANGED <<R_click, T_calib_, T_SPI_clock_, host>>

\* void T_Click::set_mA(float mA)
set_mA(mA, bitval) ==
    /\ op' = "set_mA"
    /\ Transmit(mA, bitval, << >>)

\* Mutant of T_begin: the output is not set to 4 mA.
T_begin_idle(bitval) ==
    /\ op' = "T_begin"
    /\ spi' = BeginEvents
    /\ mosi' = << >>
    /\ miso' = << >>
    /\ CS_level' = PinsAfter(CS_level, "T_click", spi')
    /\ ret' = "void"
    /\ UNCHANGED <<R_click, T_click, host>>

\* void T_Click::begin(): ends with set_mA(4.0)
T_begin(bitval) ==
    /\ op' = "T_begin"
    /\ Transmit(FInt(4), bitval, BeginEvents)

\* uint16_t T_Click::get_last_set_bitval()
get_last_set_bitval == T_bitval_

\* The operations of both devices in any order; the receiver is polled at
\* once or one interval after the last poll and answers with the reading
\* 4000.
NextRT ==
    \/ \E clk \in SPIClocks : set_SPI_clock(clk)
    \/ begin
    \/ \E byte1 \in Bytes, byte2 \in Bytes : read_bitval(byte1, byte2)
    \/ \E r \in SpanResponses : read_mA(r[1], r[2])
    \/ \E dt \in {0, EMA_interval_} : poll_EMA(dt, 31, 64)
    \/ \E clk \in SPIClocks : T_set_SPI_clock(clk)
    \/ \E bitval \in mA2bitval(T_calib_, FInt(4)) : T_begin(bitval)
    \/ \E mA \in Currents : \E bitval \in mA2bitval(T_calib_, mA) :
          set_mA(mA, bitval)

SpecRT == InitRT /\ [][NextRT]_vars

(***************************************************************************)
(* Properties.                                                             *)
(***************************************************************************)
\* Number of events 'ev' in a sequence of events.
Count(events, ev) ==
    Cardinality({ i \in 1 .. Len(events) : events[i] = ev })

\* The raw reading carried by the two bytes of an exchange, as a float.
SampleOf(bytes) == FInt(ReconstructBitval(bytes[1], bytes[2]))

\* The raw reading the last operation received.
LastSample == SampleOf(miso)

\* The 3.8 mA the claims speak of.
FaultLevel == FDec(38, 10)

\* 'out' is 'mA' classified: the sentinel at or below 3.8 mA (or when mA is
\* no number), mA itself above.
Classified(mA, out) ==
    /\ FGt(mA, FaultLevel) => out = mA
    /\ ~FGt(mA, FaultLevel) => out = NAN
    /\ out.nan \/ FGt(out, FaultLevel)

\* C1: a poll_EMA() called when (now - EMA_tick_) < EMA_interval_ returns
\* false, issues no SPI event and leaves EMA_bitval_, EMA_at_startup_,
\* EMA_tick_ and EMA_obtained_interval_ as they were.
C1_EarlyPollChangesNothing ==
    [][ (op' = "poll_EMA" /\ (now' - EMA_tick_) % ClockMod < EMA_interval_)
        => /\ ret' = FALSE
           /\ spi' = << >>
           /\ miso' = << >>
           /\ UNCHANGED filter ]_vars

\* C1 witness: a poll in the Steady state, after the clock moved on, that
\* came too early.
C1_Witness ==
    /\ op = "poll_EMA"
    /\ ret = FALSE
    /\ ~EMA_at_startup_
    /\ now # EMA_tick_

\* C2: a poll_EMA() called when (now - EMA_tick_) >= EMA_interval_ returns
\* true, performs exactly one SPI exchange (one transaction, two byte
\* transfers), stores now - previous EMA_tick_ as the obtained interval and
\* sets EMA_tick_ to the clock value read at its entry; and poll_EMA()
\* returns true exactly when it read a sample and absorbed it.
C2_DuePollSamplesOnce ==
    [][ op' = "poll_EMA"
        => /\ (now' - EMA_tick_) % ClockMod >= EMA_interval_
              => /\ ret' = TRUE
                 /\ Count(spi', "beginTransaction") = 1
                 /\ Count(spi', "endTransaction") = 1
                 /\ Count(spi', "transfer") = 2
                 /\ EMA_obtained_interval_' = (now' - EMA_tick_) % ClockMod
                 /\ EMA_tick_' = now'
           /\ ret' = TRUE
              <=> /\ Len(miso') = 2
                  /\ nsamples' = nsamples + 1
                  /\ ~EMA_bitval_'.nan ]_vars

\* C2 witness: a second sample, taken later than the interval asked for.
C2_Witness ==
    /\ op = "poll_EMA"
    /\ ret = TRUE
    /\ nsamples = 2
    /\ EMA_obtained_interval_ > EMA_interval_
    /\ EMA_tick_ = now

\* C3 as claimed: the first poll_EMA() call after construction sets
\* EMA_bitval_ to the raw sample it read (stated for a poll_EMA() that is
\* the first operation on the object).
C3_FirstPollCallSeeds ==
    [][ (op = "R_Click" /\ op' = "poll_EMA")
        => /\ Len(miso') = 2
           /\ EMA_bitval_' = SampleOf(miso') ]_vars

\* C3 amended: the first poll_EMA() that samples sets EMA_bitval_ to exactly
\* the raw sample, whatever alpha is, and every later sampling poll_EMA()
\* (the second one first) blends: EMA_bitval_ + alpha * (sample - EMA_bitval_).
C3_FirstSampleSeedsNextBlends ==
    [][ (op' = "poll_EMA" /\ ret' = TRUE)
        => \A sample \in {SampleOf(miso')}, a \in {alpha'} :
              IF nsamples = 0
              THEN EMA_bitval_' = sample
              ELSE EMA_bitval_' =
                       FAdd(EMA_bitval_, FMul(a, FSub(sample, EMA_bitval_)))
        ]_vars

\* C3 witness: after the second sample the value lies strictly between the
\* two readings the chip gives: it was blended.
C3_Witness ==
    /\ op = "poll_EMA"
    /\ ret = TRUE
    /\ nsamples = 2
    /\ FGt(EMA_bitval_, FInt(0))
    /\ FGt(FInt(4000), EMA_bitval_)

\* C4: EMA_at_startup_ is true from construction until the first poll_EMA()
\* that returns true, false from that call on, and no operation makes it
\* true again.
C4_StartupOneWay ==
    /\ [](EMA_at_startup_ <=> (nsamples = 0))
    /\ [][ /\ ~EMA_at_startup_ => ~EMA_at_startup_'
           /\ (op' = "poll_EMA" /\ ret' = TRUE) => ~EMA_at_startup_'
           /\ (EMA_at_startup_ /\ ~(op' = "poll_EMA" /\ ret' = TRUE))
              => EMA_at_startup_' ]_vars

\* C4 witness: begin() called on a filter that has left Seeding.
C4_Witness ==
    /\ op = "begin"
    /\ ~EMA_at_startup_
    /\ nsamples = 2

\* C5: as long as no sample has been absorbed, get_EMA_bitval() is NaN and
\* get_EMA_mA() is the fault sentinel.
C5_SeedingReadsAsFault ==
    (nsamples = 0 \/ EMA_at_startup_)
    => /\ EMA_at_startup_
       /\ get_EMA_bitval.nan
       /\ get_EMA_mA = NAN

\* C5 witness: Seeding, after a read_mA() of a broken loop returned the
\* same sentinel.
C5_Witness ==
    /\ EMA_at_startup_
    /\ op = "read_mA"
    /\ ret = NAN
    /\ get_EMA_mA = ret

\* Raw values handed to bitval2mA(): whole and fractional, on both sides of
\* the fault level.
TestBitvals ==
    { FInt(0), FInt(752), FInt(760), FDec(7605, 10), FInt(768), FInt(800),
      FDec(24005, 10), FInt(4095) }

C7_FaultOfTheEstimate ==
    [][ (op' = "poll_EMA" /\ ret' = TRUE /\ ~EMA_at_startup_)
        => \A sample \in {SampleOf(miso')}, a \in {alpha'},
              after \in {EMA_bitval_'} :
              ~FGt(ConvertedCurrent(calib_, sample), FaultLevel)
              => \A mA \in {ConvertedCurrent(calib_,
                               FAdd(EMA_bitval_,
                                    FMul(a, FSub(sample, EMA_bitval_))))} :
                    IF FGt(mA, FaultLevel)
                    THEN bitval2mA(calib_, after) = mA
                    ELSE bitval2mA(calib_, after) = NAN ]_vars

\* C7 witness: the second sample read 0 (a broken loop) and get_EMA_mA()
\* still returns a current.
C7_Witness ==
    /\ op = "poll_EMA"
    /\ ret = TRUE
    /\ nsamples = 2
    /\ LastSample = FInt(0)
    /\ ~get_EMA_mA.nan

\* C8: EMA_tick_ changes only when poll_EMA() samples, and a sample is taken
\* only when the clock read at entry is at least EMA_interval_ past
\* EMA_tick_: after a poll_EMA() that returned true
\* get_EMA_obtained_interval() >= EMA_interval_.
C8_SamplingCadence ==
    [][ IF op' = "poll_EMA" /\ ret' = TRUE
        THEN /\ (now' - EMA_tick_) % ClockMod >= EMA_interval_
             /\ get_EMA_obtained_interval' >= EMA_interval_
        ELSE EMA_tick_' = EMA_tick_ ]_vars

\* C8 witness: a second sample taken exactly one interval after the first.
C8_Witness ==
    /\ op = "poll_EMA"
    /\ ret = TRUE
    /\ nsamples = 2
    /\ EMA_interval_ > 0
    /\ get_EMA_obtained_interval = EMA_interval_

Tolerance(x, y) ==
    FMul(IF FGt(FAbs(x), FAbs(y)) THEN FAbs(x) ELSE FAbs(y),
         Norm(1, 3 - Precision))

C11_WraparoundSafe ==
    [][ (op' = "poll_EMA" /\ true_elapsed' < ClockMod)
        => /\ (now' - EMA_tick_) % ClockMod = true_elapsed'
           /\ ret' = TRUE <=> true_elapsed' >= EMA_interval_
           /\ ret' = TRUE => EMA_obtained_interval_' = true_elapsed' ]_vars

\* C11 witness: a second sample taken after the counter wrapped since the
\* first (the previous tick, now - obtained interval, lies before 0).
C11_Witness ==
    /\ op = "poll_EMA"
    /\ ret = TRUE
    /\ nsamples = 2
    /\ now < EMA_obtained_interval_
    /\ EMA_obtained_interval_ = true_elapsed
    /\ EMA_obtained_interval_ >= EMA_interval_
    /\ EMA_interval_ > 0

\* Bit k of the byte n.
Bit(n, k) == (n \div (2 ^ k)) % 2

\* The 12-bit reading two answer bytes carry: bits 4..0 of the first byte
\* (B11..B7) followed by bits 7..1 of the second (B6..B0).
Reading(hi, lo) ==
    Bit(hi, 4) * 2048 + Bit(hi, 3) * 1024 + Bit(hi, 2) * 512
    + Bit(hi, 1) * 256 + Bit(hi, 0) * 128 + Bit(lo, 7) * 64
    + Bit(lo, 6) * 32 + Bit(lo, 5) * 16 + Bit(lo, 4) * 8 + Bit(lo, 3) * 4
    + Bit(lo, 2) * 2 + Bit(lo, 1)

\* C12: read_bitval() returns (((hi & 0x1F) << 8) | lo) >> 1 of the bytes
\* (hi, lo) the chip answered with: a value in 0 .. 4095 that the three
\* leading bits of hi and the last bit of lo do not touch.
C12_ReadBitvalFormula ==
    /\ op = "read_bitval"
       => /\ ret = Reading(miso[1], miso[2])
          /\ ret \in 0 .. 4095
          /\ ret = ((miso[1] % 32) * 256 + miso[2]) \div 2
    /\ op = "T_Click"
       => \A hi \in 0 .. 255, lo \in Bytes :
             /\ ReconstructBitval(hi, lo) \in 0 .. 4095
             /\ ReconstructBitval(hi, lo)
                = ReconstructBitval(hi % 32, lo - (lo % 2))

\* C12 witness: an answer with all three leading bits and the trailing bit
\* set was read as 760.
C12_Witness ==
    /\ op = "read_bitval"
    /\ miso = <<229, 241>>
    /\ ret = 760

\* The operations that write to the DAC.
DACWrites == {"set_mA", "T_begin"}

\* The calibration {4.0, 20.0, 800, 4000}.
WorkedCalibration ==
    [p1_mA |-> FInt(4), p2_mA |-> FInt(20), p1_bitval |-> 800,
     p2_bitval |-> 4000]

\* C13: set_mA(mA) with v = mA2bitval(mA) sends exactly two bytes; the upper
\* nibble of the first is 0x3 for every input; for v in 0 .. 4095 the bytes
\* are 0x30 | (v >> 8) and v & 0xFF; set_mA(12.0) under the calibration
\* {4.0, 20.0, 800, 4000} computes 2400 and sends 0x39, 0x60.
C13_CommandBytes ==
    /\ op \in DACWrites
       => /\ Len(mosi) = 2
          /\ Count(spi, "transfer") = 2
          /\ T_bitval_ \in mA2bitval(T_calib_, T_last_mA[1])
          /\ mosi[1] \div 16 = 3
          /\ T_bitval_ \in 0 .. 4095
             => mosi = <<48 + (T_bitval_ \div 256), T_bitval_ % 256>>
    /\ (op = "set_mA" /\ T_last_mA = <<FInt(12)>>
        /\ T_calib_ = WorkedCalibration)
       => /\ T_bitval_ = 2400
          /\ mosi = <<57, 96>>

\* C13 witness: set_mA(12.0) under {4.0, 20.0, 800, 4000} sent 0x39, 0x60.
C13_Witness ==
    /\ op = "set_mA"
    /\ T_last_mA = <<FInt(12)>>
    /\ T_calib_ = WorkedCalibration
    /\ mosi = <<57, 96>>

\* The events of the operations that exchange bytes with a chip.
Exchanging ==
    \/ op \in {"read_bitval", "read_mA"} \cup DACWrites
    \/ op = "poll_EMA" /\ ret = TRUE

\* Transactions open after the first i events.
OpenAfter(events, i) ==
    Count(SubSeq(events, 1, i), "beginTransaction")
    - Count(SubSeq(events, 1, i), "endTransaction")

\* The chip is selected after the first i events.
SelectedAfter(events, i) == PinLevel("HIGH", SubSeq(events, 1, i)) = "LOW"

\* C14: every exchange of read_bitval() and set_mA() is beginTransaction,
\* CS low, two byte transfers, CS high, endTransaction, in that order: no
\* byte moves outside an open transaction or with CS high, and CS is never
\* low outside an open transaction.
C14_ExchangeOrder ==
    /\ Exchanging
       => /\ Len(spi) >= 6
          /\ SubSeq(spi, Len(spi) - 5, Len(spi))
             = << "beginTransaction", "CS_LOW", "transfer", "transfer",
                  "CS_HIGH", "endTransaction" >>
          /\ Count(spi, "transfer") = 2
          /\ Len(miso) + Len(mosi) >= 2
    /\ ~Exchanging => Count(spi, "transfer") = 0
    /\ \A i \in 1 .. Len(spi) :
          /\ spi[i] = "transfer"
             => OpenAfter(spi, i - 1) = 1 /\ SelectedAfter(spi, i - 1)
          /\ SelectedAfter(spi, i) => OpenAfter(spi, i) = 1

\* C14 witness: the write of begin(), whose exchange follows the pin
\* set-up, after the receiver was sampled.
C14_Witness ==
    /\ op = "T_begin"
    /\ Len(spi) = 9
    /\ spi[5] = "CS_LOW"
    /\ spi[6] = "transfer"
    /\ nsamples >= 1

\* The device an operation belongs to.
DeviceOf(o) ==
    IF o \in DACWrites \cup {"T_set_SPI_clock", "T_Click"} THEN "T_click"
    ELSE "R_click"

\* C15: with both devices on one bus, in any sequence of operations, at most
\* one transaction is open and at most one CS line is low at any time; when
\* an operation has returned no transaction is open and no CS line is low.
C15_SharedBus ==
    /\ [](\A d \in Devices : CS_level[d] # "LOW")
    /\ [][ /\ \A i \in 0 .. Len(spi') :
                /\ OpenAfter(spi', i) \in {0, 1}
                /\ Cardinality(
                     { d \in Devices :
                         PinsAfter(CS_level, DeviceOf(op'),
                                   SubSeq(spi', 1, i))[d] = "LOW" }) <= 1
           /\ OpenAfter(spi', Len(spi')) = 0
           /\ \A d \in Devices :
                 /\ CS_level[d] = "HIGH" => CS_level'[d] = "HIGH"
                 /\ d # DeviceOf(op') => CS_level'[d] = CS_level[d]
           /\ op' \in {"begin", "T_begin"}
              => CS_level'[DeviceOf(op')] = "HIGH" ]_vars

\* C15 witness: both devices were started and used, the transmitter last.
C15_Witness ==
    /\ op = "set_mA"
    /\ nsamples >= 1
    /\ CS_level = [d \in Devices |-> "HIGH"]

\* C16: T_Click::begin() sets CS high first and then writes the DAC exactly
\* once, with the data word mA2bitval(4.0); after it get_last_set_bitval()
\* is mA2bitval(4.0).
C16_BeginSetsFourMilliamp ==
    op = "T_begin"
    => /\ spi = << "SPI.begin", "CS_HIGH", "pinMode_OUTPUT" >>
                \o WriteExchange
       /\ \A i \in 1 .. Len(spi) :
             spi[i] \in {"transfer", "CS_LOW", "beginTransaction"}
             => \E j \in 1 .. (i - 1) : spi[j] = "CS_HIGH"
       /\ Count(spi, "beginTransaction") = 1
       /\ Count(spi, "transfer") = 2
       /\ Len(mosi) = 2
       /\ T_last_mA = <<FInt(4)>>
       /\ get_last_set_bitval \in mA2bitval(T_calib_, FInt(4))
       /\ (mosi[1] % 16) * 256 + mosi[2] = get_last_set_bitval
       /\ mosi[1] \div 16 = 3
       /\ CS_level["T_click"] = "HIGH"

\* C16 witness: begin() of a transmitter calibrated otherwise than {4.0,
\* 20.0, 800, 4000} wrote its word for 4 mA and returns it.
C16_Witness ==
    /\ op = "T_begin"
    /\ T_calib_ # WorkedCalibration
    /\ get_last_set_bitval \in 1 .. 4095
    /\ mosi = <<BitvalHI(get_last_set_bitval), BitvalLO(get_last_set_bitval)>>

\* C17: get_last_set_bitval() is mA2bitval(mA) of the latest set_mA(mA), the
\* one of begin() included; the value it returns changes through set_mA()
\* only.
C17_LastSetBitval ==
    /\ [](T_last_mA # << >>
          => get_last_set_bitval \in mA2bitval(T_calib_, T_last_mA[1]))
    /\ [][ /\ T_bitval_' # T_bitval_ => op' \in DACWrites
           /\ T_last_mA' # T_last_mA => op' \in DACWrites
           /\ T_calib_' = T_calib_ ]_vars

\* C17 witness: the value of set_mA(12.0) is still returned after the
\* receiver was read.
C17_Witness ==
    /\ op = "read_bitval"
    /\ T_last_mA = <<FInt(12)>>
    /\ T_calib_ = WorkedCalibration
    /\ get_last_set_bitval = 2400

\* The 12-bit data word two command bytes carry.
DataWord(bytes) == (bytes[1] % 16) * 256 + bytes[2]

\* C18: after every set_mA(mA), whatever mA and calibration, the recorded
\* raw value is in 0 .. 4095 and is the 12-bit data word of the two bytes
\* sent; stated for the calls whose conversion to uint16_t is defined.
C18_RecordedIsTransmitted ==
    (op \in DACWrites /\ Cardinality(mA2bitval(T_calib_, T_last_mA[1])) = 1)
    => /\ get_last_set_bitval \in 0 .. 4095
       /\ get_last_set_bitval = DataWord(mosi)

\* The initial states at which the conversions are checked over the whole
\* calibrated span, one per calibration.
SpanChecked ==
    /\ op = "T_Click"
    /\ T_bitval_ = 0
    /\ EMA_obtained_interval_ = 0

\* The raw values of the calibrated span of 'calib'.
Span(calib) == calib.p1_bitval .. calib.p2_bitval

\* Every value mA2bitval can return for the current of the raw value x is
\* within one of x.
RoundTrip(calib, x) ==
    \A v \in mA2bitval(calib, bitval2mA(calib, FInt(x))) :
       v \in {x - 1, x, x + 1}

\* C19 as stated: for every calibration with p1_bitval < p2_bitval and
\* p1_mA < p2_mA shared by receiver and transmitter and every raw value x
\* of the span, mA2bitval(bitval2mA(x)) is within one of x.
C19_RoundTripAnyCalibration ==
    /\ SpanChecked => \A x \in Span(calib_) : RoundTrip(calib_, x)
    /\ (op = "read_mA" /\ ReconstructBitval(miso[1], miso[2]) \in Span(calib_))
       => \A v \in mA2bitval(T_calib_, ret) :
             v - ReconstructBitval(miso[1], miso[2]) \in {-1, 0, 1}

\* C19 (amended): the same for calibrations whose lower point lies above
\* the fault threshold of 3.8 mA, so that every raw value of the span
\* converts to a current.
C19_RoundTripAboveFaultLevel ==
    /\ T_calib_ = calib_
    /\ FGt(calib_.p1_mA, R_CLICK_FAULT_mA)
       => /\ SpanChecked => \A x \in Span(calib_) : RoundTrip(calib_, x)
          /\ (op = "read_mA"
              /\ ReconstructBitval(miso[1], miso[2]) \in Span(calib_))
             => /\ ~ret.nan
                /\ \A v \in mA2bitval(T_calib_, ret) :
                      v - ReconstructBitval(miso[1], miso[2]) \in {-1, 0, 1}

\* C19 witness: read_mA() returned the current of the reading 2400 under a
\* calibration other than {4.0, 20.0, 800, 4000}, and the transmitter's
\* value for that current is within one of 2400.
C19_Witness ==
    /\ op = "read_mA"
    /\ ReconstructBitval(miso[1], miso[2]) = 2400
    /\ calib_ # WorkedCalibration
    /\ FGt(calib_.p1_mA, R_CLICK_FAULT_mA)
    /\ ~ret.nan
    /\ mA2bitval(T_calib_, ret) \subseteq {2399, 2400, 2401}

\* One unit in the last place of the float a.
Ulp(a) == Norm(1, a.e)

\* C20 as stated: over the raw values of the calibrated span bitval2mA is
\* monotonic and passes exactly through both calibration points.
C20_MonotonicThroughBothPoints ==
    /\ SpanChecked
       => /\ \A x \in Span(calib_) \ {calib_.p2_bitval} :
                FLe(bitval2mA(calib_, FInt(x)), bitval2mA(calib_, FInt(x + 1)))
          /\ bitval2mA(calib_, FInt(calib_.p1_bitval)) = calib_.p1_mA
          /\ bitval2mA(calib_, FInt(calib_.p2_bitval)) = calib_.p2_mA
    /\ op = "read_mA"
       => /\ ReconstructBitval(miso[1], miso[2]) = calib_.p1_bitval
             => ret = calib_.p1_mA
          /\ ReconstructBitval(miso[1], miso[2]) = calib_.p2_bitval
             => ret = calib_.p2_mA

\* C20 (amended): over the raw values of the calibrated span bitval2mA never
\* decreases where it returns a current, and once it returns one it does for
\* every larger raw value; a lower point above the 3.8 mA fault threshold is
\* met exactly, the upper point within one unit in the last place.
C20_MonotonicWithinTolerance ==
    /\ SpanChecked
       => /\ \A x \in Span(calib_) \ {calib_.p2_bitval} :
                \A lo \in {bitval2mA(calib_, FInt(x))} :
                \A hi \in {bitval2mA(calib_, FInt(x + 1))} :
                   ~lo.nan => ~hi.nan /\ FLe(lo, hi)
          /\ FGt(calib_.p1_mA, R_CLICK_FAULT_mA)
             => bitval2mA(calib_, FInt(calib_.p1_bitval)) = calib_.p1_mA
          /\ FLe(FAbs(FSub(bitval2mA(calib_, FInt(calib_.p2_bitval)),
                           calib_.p2_mA)),
                 Ulp(calib_.p2_mA))
    /\ op = "read_mA"
       => /\ (/\ ReconstructBitval(miso[1], miso[2]) = calib_.p1_bitval
              /\ FGt(calib_.p1_mA, R_CLICK_FAULT_mA))
             => ret = calib_.p1_mA
          /\ ReconstructBitval(miso[1], miso[2]) = calib_.p2_bitval
             => FLe(FAbs(FSub(ret, calib_.p2_mA)), Ulp(calib_.p2_mA))

\* C20 witness: read_mA() of the raw value of the upper calibration point
\* returned a current one rounding step off p2_mA.
C20_Witness ==
    /\ op = "read_mA"
    /\ ReconstructBitval(miso[1], miso[2]) = calib_.p2_bitval
    /\ ~ret.nan
    /\ ret # calib_.p2_mA
    /\ FLe(FAbs(FSub(ret, calib_.p2_mA)), Ulp(calib_.p2_mA))

\* The raw value read_mA() converted.
RawRead == ReconstructBitval(miso[1], miso[2])

\* C21 as stated: under the calibration {4.0, 20.0, 800, 4000} a raw reading
\* of 800 converts to 4.0 mA and is not faulted; a raw reading of 0
\* converts to about -0.2 mA and is returned as the fault sentinel.
C21_ScenarioMinusPointTwo ==
    (op = "read_mA" /\ calib_ = WorkedCalibration)
    => /\ RawRead = 800 => ret = FInt(4)
       /\ RawRead = 0
          => /\ ret.nan
             /\ FLe(FAbs(FSub(ConvertedCurrent(calib_, FInt(RawRead)),
                              FDec(-2, 10))),
                    FDec(1, 10))

\* C21 (amended): a raw reading of 800 converts to 4.0 mA and is not
\* faulted; a raw reading of 0 converts to 0.0 mA, which is not above
\* 3.8 mA, and is returned as the fault sentinel.
C21_ScenarioZeroCurrent ==
    (op = "read_mA" /\ calib_ = WorkedCalibration)
    => /\ RawRead = 800 => ret = FInt(4) /\ ~ret.nan
       /\ RawRead = 0
          => /\ ret.nan
             /\ ConvertedCurrent(calib_, FInt(RawRead)) = Zero
             /\ ~FGt(ConvertedCurrent(calib_, FInt(RawRead)),
                     R_CLICK_FAULT_mA)

\* C21 witness: read_mA() of the raw reading 0 returned the sentinel.
C21_Witness ==
    /\ op = "read_mA"
    /\ calib_ = WorkedCalibration
    /\ RawRead = 0
    /\ ret.nan

\* C22: read_bitval() and read_mA() leave EMA_bitval_, EMA_at_startup_,
\* EMA_tick_ and EMA_obtained_interval_ unchanged and return a function of
\* the bytes received alone, whatever the filter state; what a poll_EMA()
\* returns and absorbs depends on the clock, the filter and the bytes it
\* receives only, so reads in between change nothing for it.
C22_ReadsBypassFilter ==
    [][ /\ op' \in {"read_bitval", "read_mA"}
           => /\ UNCHANGED <<filter, config, now, alpha, nsamples>>
              /\ Len(miso') = 2
        /\ op' = "read_bitval"
           => ret' = ReconstructBitval(miso'[1], miso'[2])
        /\ op' = "read_mA"
           => ret' = bitval2mA(calib_, SampleOf(miso'))
        /\ op' = "poll_EMA"
           => /\ ret' = TRUE <=> DueToSample(now', EMA_tick_, EMA_interval_)
              /\ ret' = TRUE
                 => /\ EMA_bitval_'
                       = NextBitval(EMA_at_startup_, EMA_bitval_,
                                    SmoothingFactor(
                                        Elapsed(now', EMA_tick_),
                                        EMA_LP_freq_),
                                    ReconstructBitval(miso'[1], miso'[2]))
                    /\ EMA_tick_' = now'
              /\ ret' = FALSE => UNCHANGED filter ]_vars

\* C22 witness: in Steady state with a running value of 4000, read_bitval()
\* returned 760.
C22_Witness ==
    /\ op = "read_bitval"
    /\ ~EMA_at_startup_
    /\ EMA_bitval_ = FInt(4000)
    /\ ret = 760

\* Number of SPI exchanges in a sequence of events.
Exchanges(events) == Count(events, "beginTransaction")

\* The longest sequence of bus and pin events of an operation: the pin
\* set-up of T_Click::begin() followed by one exchange.
MaxEvents == 9

\* C23: every operation is a fixed, bounded sequence of steps with at most
\* one SPI exchange of two byte transfers: poll_EMA() makes none or one,
\* read_bitval(), read_mA(), set_mA() and T_Click::begin() exactly one,
\* R_Click::begin(), set_SPI_clock() and construction none.
C23_AtMostOneExchange ==
    /\ Len(spi) <= MaxEvents
    /\ Exchanges(spi) = Count(spi, "endTransaction")
    /\ Count(spi, "transfer") = 2 * Exchanges(spi)
    /\ Exchanges(spi) <= 1
    /\ op = "poll_EMA" => (Exchanges(spi) = 1 <=> ret = TRUE)
    /\ op \in {"read_bitval", "read_mA"} \cup DACWrites => Exchanges(spi) = 1
    /\ op \in {"begin", "set_SPI_clock", "T_set_SPI_clock", "T_Click"}
       => Exchanges(spi) = 0
    /\ op \in {"poll_EMA", "read_bitval", "read_mA", "begin", "set_mA",
               "T_begin", "set_SPI_clock", "T_set_SPI_clock", "T_Click"}

\* C23 witness: a poll_EMA() that made no exchange after a read and a DAC
\* write had been made.
C23_Witness ==
    /\ op = "poll_EMA"
    /\ ret = FALSE
    /\ spi = << >>
    /\ T_last_mA # << >>
    /\ nsamples >= 1

\* C24: with a configured interval of 0, a poll_EMA() that reads a clock
\* value equal to EMA_tick_ returns true, makes one SPI read and stores an
\* obtained interval of 0; alpha is 1 - exp(0) = 0, so in Steady state the
\* running value stays as it is, and in Seeding it becomes the sample.
C24_ZeroObtainedInterval ==
    [][ (op' = "poll_EMA" /\ EMA_interval_ = 0 /\ now' = EMA_tick_)
        => /\ ret' = TRUE
           /\ Exchanges(spi') = 1
           /\ Count(spi', "transfer") = 2
           /\ EMA_obtained_interval_' = 0
           /\ alpha' = Zero
           /\ ~EMA_at_startup_'
           /\ EMA_at_startup_ => EMA_bitval_' = SampleOf(miso')
           /\ ~EMA_at_startup_ => EMA_bitval_' = EMA_bitval_ ]_vars

\* C24 witness: in Steady state such a poll read a sample other than the
\* running value and left the running value as it was.
C24_Witness ==
    /\ op = "poll_EMA"
    /\ ret = TRUE
    /\ EMA_interval_ = 0
    /\ EMA_obtained_interval_ = 0
    /\ EMA_tick_ = now
    /\ nsamples = 2
    /\ alpha = Zero
    /\ EMA_bitval_ # SampleOf(miso)

\* The smallest and the largest of a non-empty set of raw samples.
Smallest(samples) == CHOOSE x \in samples : \A y \in samples : x <= y

Largest(samples) == CHOOSE x \in samples : \A y \in samples : y <= x

\* y lies between x and s, ends included.
Between(y, x, s) ==
    \/ FLe(x, y) /\ FLe(y, s)
    \/ FLe(s, y) /\ FLe(y, x)

\* A smoothing factor in [0, 1].
UnitInterval(a) == ~a.nan /\ FLe(Zero, a) /\ FLe(a, FInt(1))

\* Running values, whole and fractional, and raw samples the blending step
\* is checked with directly.
TestRunning ==
    { Zero, FDec(1, 3), FDec(7601, 10), FDec(40949, 10), FInt(4095) }

TestSamples == {0, 1, 760, 4095}

\* C25: for a cut-off frequency that is not negative the smoothing factor
\* lies in [0, 1]; in Steady state the running value lies between the
\* smallest and the largest sample absorbed so far, hence in [0, 4095]; a
\* blending step ends between the old running value and the new sample.
C25_RunningValueWithinSamples ==
    /\ [](/\ op = "R_Click"
             => \A dt \in Clock, hz \in Cutoffs \cup {0} :
                   \A a \in {SmoothingFactor(dt, Hz2MHz(hz))} :
                      /\ UnitInterval(a)
                      /\ \A x \in TestRunning, sample \in TestSamples :
                            Between(Blend(x, a, sample), x, FInt(sample))
          /\ ~alpha.nan => UnitInterval(alpha)
          /\ ~EMA_at_startup_
             => /\ absorbed # {}
                /\ FLe(FInt(Smallest(absorbed)), EMA_bitval_)
                /\ FLe(EMA_bitval_, FInt(Largest(absorbed)))
                /\ FLe(Zero, EMA_bitval_)
                /\ FLe(EMA_bitval_, FInt(4095)))
    /\ [][ (op' = "poll_EMA" /\ ret' = TRUE /\ ~EMA_at_startup_)
           => /\ Between(EMA_bitval_', EMA_bitval_, SampleOf(miso'))
              /\ absorbed' = absorbed \cup {ReconstructBitval(miso'[1],
                                                              miso'[2])} ]_vars

\* C25 witness: a running value strictly between the two samples absorbed.
C25_Witness ==
    /\ op = "poll_EMA"
    /\ ret = TRUE
    /\ ~EMA_at_startup_
    /\ absorbed = {0, 4000}
    /\ FGt(EMA_bitval_, Zero)
    /\ FGt(FInt(4000), EMA_bitval_)

\* C26: while poll_EMA() is called again and again and the clock keeps
\* advancing, with every gap shorter than 2^32 - EMA_interval_, calls that
\* return true keep occurring; a filter in Seeding reaches Steady and
\* get_EMA_bitval() becomes a number.
C26_FilterLive ==
    /\ []<><<op' = "poll_EMA" /\ ret' = TRUE>>_vars
    /\ EMA_at_startup_ ~> (~EMA_at_startup_ /\ ~get_EMA_bitval.nan)

\* C26 witness: a sampling call across the wrap of the clock, after calls
\* that came too early to sample.
C26_Witness ==
    /\ op = "poll_EMA"
    /\ ret = TRUE
    /\ ~EMA_at_startup_
    /\ ~get_EMA_bitval.nan
    /\ nsamples = MaxSamples
    /\ EMA_interval_ > 0
    /\ now < EMA_obtained_interval_

\* The report lines among the lines printed by the last iteration.
ReportLines(lines) ==
    { i \in 1 .. Len(lines) : lines[i].text = "report" }

\* C27: an iteration of loop() prints a report line only if the flag
\* 'report' is true in it; the flag is false before the first iteration,
\* "on" sets it, "off" and "id?" clear it, "id?" (and nothing else) prints
\* the identity line, any other command or none leaves the flag as it was;
\* and whatever the flag, the iteration makes one call of poll_EMA(), which
\* samples exactly when a sample is due.
C27_ReportGating ==
    /\ [](/\ ReportLines(serial) # {} => op = "loop" /\ report
          /\ op # "loop" => ~report)
    /\ [][op' = "loop" =>
            /\ str_cmd' = <<"on">> => report'
            /\ str_cmd' \in {<<"off">>, <<"id?">>} => ~report'
            /\ str_cmd' \notin {<<"on">>, <<"off">>, <<"id?">>}
                  => report' = report
            /\ (\E i \in 1 .. Len(serial') : serial'[i] = IdentityLine)
                  <=> str_cmd' = <<"id?">>
            /\ ret' = DueToSample(now', EMA_tick_, EMA_interval_)
            /\ Exchanges(spi') = IF ret' THEN 1 ELSE 0
            /\ IF ret'
               THEN /\ EMA_tick_' = now'
                    /\ ~EMA_at_startup_'
                    /\ nsamples' = IF nsamples < MaxSamples
                                   THEN nsamples + 1 ELSE nsamples
               ELSE UNCHANGED <<filter, nsamples>>
       ]_vars

\* C27 witness: an iteration that received a command the sketch does not
\* know while reporting was on: it polled, sampled and printed a report.
C27_Witness ==
    /\ op = "loop"
    /\ str_cmd = <<"x">>
    /\ report
    /\ ReportLines(serial) # {}
    /\ ret = TRUE
    /\ Exchanges(spi) = 1

\* C28: while reporting is enabled an iteration of loop() prints a report
\* exactly when its millis() differs from the stored tick, and the line
\* carries that millis(); the stored tick is the millis() of the first
\* iteration until a report is printed and the timestamp of the last report
\* afterwards, so two consecutive report lines never carry the same
\* timestamp; and (tick - now >= 1) equals (now - tick >= 1) and tick # now
\* for every pair of counter values, across a wrap of millis() too.
C28_ReportRate ==
    /\ [](/\ \A t_tick \in Millis, t_now \in Millis :
                /\ ReportDue(t_tick, t_now) <=> ReportDue(t_now, t_tick)
                /\ ReportDue(t_tick, t_now) <=> t_tick # t_now
          /\ last_report # << >> => last_report = <<tick>>)
    /\ [][op' = "loop" =>
            /\ ~statics_set
                  => tick' = loop_now' /\ ReportLines(serial') = {}
            /\ statics_set /\ report'
                  => (ReportLines(serial') # {} <=> loop_now' # tick)
            /\ \A i \in ReportLines(serial') :
                  /\ serial'[i].values[1] = loop_now'
                  /\ last_report # <<loop_now'>>
                  /\ last_report' = <<loop_now'>>
                  /\ tick' = loop_now'
                  /\ Cardinality(ReportLines(serial')) = 1
            /\ ReportLines(serial') = {} /\ statics_set
                  => tick' = tick /\ last_report' = last_report
       ]_vars

\* C28 witness: a report stamped 0, after millis() wrapped: the first
\* iteration never reports, and the counter left 0 or the tick in between.
C28_Witness ==
    /\ op = "loop"
    /\ report
    /\ ReportLines(serial) # {}
    /\ loop_now = 0
    /\ tick = 0
    /\ last_report = <<0>>

=============================================================================
